---- MODULE Spec2Model ----
(***************************************************************************)
(* Refresh-token lifecycle of the FastAPI Xtrem user API                  *)
(* (api/users/routes.py, api/users/crud.py, api/auth/*.py).               *)
(*                                                                         *)
(* The clock counts days.  A refresh-token record keeps the columns the   *)
(* session operations read or write (id, token, user_id, expires_at,      *)
(* revoked, revoked_at); created_at, issued_by and device_info are        *)
(* written once and never read by them.  A nullable timestamp is a set:   *)
(* {} is NULL and {d} is the day d.                                       *)
(*                                                                         *)
(* Spec     : every request handler runs to completion before the next    *)
(*            one starts (the handlers are coroutines without an await).  *)
(* SpecConc : two refresh requests served by separate workers over the    *)
(*            same database; every crud call commits on its own, so the   *)
(*            requests interleave, and may fail, between two commits.     *)
(* SpecAdmin: the handlers of Spec on one day, with account deletion and  *)
(*            the scope-protected endpoints.                              *)
(* SpecSweep: one run of the server: the cleanup thread started by the    *)
(*            lifespan hook, next to logins and refreshes, with weak      *)
(*            fairness of the cleanup thread.                             *)
(***************************************************************************)
EXTENDS Integers, FiniteSets, Sequences, TLC

\* ---------------------------------------------------------------- bounds
MaxTokens == 2

\* ------------------------------------------------------ program constants
REFRESH_TOKEN_EXPIRE_DAYS == 7
ACCESS_TOKEN_EXPIRE_MINUTES == 30
RETENTION_DAYS == 30

UserIds == {1, 2}
\* role of the accounts the database starts with: an admin and a user
InitialRole(u) == IF u = 1 THEN "admin" ELSE "user"
Workers == {1, 2}
\* the days the clock is read at: day 0, the expiry day of a string issued
\* at day 0, the last day the purge keeps that string, and the day after
Instants == {0, REFRESH_TOKEN_EXPIRE_DAYS,
             REFRESH_TOKEN_EXPIRE_DAYS + RETENTION_DAYS,
             REFRESH_TOKEN_EXPIRE_DAYS + RETENTION_DAYS + 1}

\* a refresh_token field of a request that carries a string the server
\* never minted; minted strings are 1, 2, ...
NoToken == 0
\* requester of a request whose bearer token does not decode to a user;
\* user ids are 1, 2, ...
NoUser == 0
\* NULL of a nullable timestamp column
None == {}

VARIABLES
    now,        \* the clock, in days
    store,      \* refresh_tokens table: token string -> row
    users,      \* users table: id -> row
    issued,     \* number of token strings minted so far
    resp,       \* response of the latest request
    req,        \* inputs of the latest login or scope-protected request
    sweep,      \* position of the cleanup thread of the lifespan hook
    minted,     \* access tokens returned to clients and not yet expired
    server,     \* the process: its configuration and its lifespan phase
    redeemed,   \* history: strings a refresh has succeeded on
    wpc,        \* per worker: position in refresh_access_token
    wtok,       \* per worker: the string presented
    wuid,       \* per worker: user.id loaded at line 151
    wresp,      \* per worker: response of its request
    rotated,    \* history: strings revoked at line 162
    replaced    \* history: strings whose rotation stored its successor

vars == <<now, store, users, issued, resp, req, sweep, minted, server,
          redeemed,
          wpc, wtok, wuid, wresp, rotated, replaced>>
concVars == <<wpc, wtok, wuid, wresp, rotated, replaced>>

\* ------------------------------------------------------------- responses
\* op: the request; by: the authenticated requester (NoUser if the request
\* carries no identity); tok: the refresh string presented; status: the
\* outcome; new: the refresh string returned; count: the number reported
\* grant: the body of a 200 answer of the two token endpoints, None
\* otherwise
Response(op, by, tok, status, new, count) ==
    [op |-> op, by |-> by, tok |-> tok, status |-> status, new |-> new,
     count |-> count, grant |-> None, detail |-> ""]

NoResponse == Response("none", NoUser, NoToken, "none", NoToken, 0)

\* -------------------------------------------------------------- requests
\* a bearer token: signed is false for a token that was not signed with
\* the key of the server (forged, malformed); the other fields are the
\* claims of its payload: sub the user the username names (NoUser when
\* the claim is absent), scopes the strings of the scopes claim, exp the
\* minute of expiry
AccessToken(signed, sub, scopes, user_id, exp) ==
    [signed |-> signed, sub |-> sub, scopes |-> scopes, user_id |-> user_id,
     exp |-> exp]

NoAccessToken == AccessToken(FALSE, NoUser, {}, NoUser, 0)

\* the clock counts days; the exp claim of an access token and the
\* timedelta of its lifetime are in minutes
MinutesPerDay == 24 * 60

minutes(day) == day * MinutesPerDay

\* jose jwt.decode: the signature is verified, then exp against the clock
\* (at, in minutes)
jwt_decodes(token, at) == token.signed /\ ~(token.exp < at)

\* form of POST /users/token: name is the user the username names (NoUser
\* for a username without a row), pwOk whether the password is the one
\* hashed in that row; fault: the database fails in update_user_login
LoginRequest(name, pwOk, fault) ==
    [name |-> name, pwOk |-> pwOk, fault |-> fault,
     token |-> NoAccessToken, required |-> << >>]

\* request to an endpoint behind get_user_with_scopes(*required)
ScopedRequest(token, required) ==
    [name |-> NoUser, pwOk |-> FALSE, fault |-> FALSE,
     token |-> token, required |-> required]

NoRequest == LoginRequest(NoUser, FALSE, FALSE)

\* ---------------------------------------------------------------- scopes
\* str() of a member of the enum Scopes (class Scopes(str, Enum)); a
\* scope is written by its value, as == and hash of the member take it;
\* str() of any other string is the string
str(scope) ==
    CASE scope = "user:read" -> "Scopes.USER_READ"
      [] scope = "user:write" -> "Scopes.USER_WRITE"
      [] scope = "user:delete" -> "Scopes.USER_DELETE"
      [] scope = "profile:read" -> "Scopes.PROFILE_READ"
      [] scope = "profile:write" -> "Scopes.PROFILE_WRITE"
      [] scope = "admin:read" -> "Scopes.ADMIN_READ"
      [] scope = "admin:write" -> "Scopes.ADMIN_WRITE"
      [] scope = "admin:delete" -> "Scopes.ADMIN_DELETE"
      [] scope = "stats:read" -> "Scopes.STATS_READ"
      [] scope = "logs:read" -> "Scopes.LOGS_READ"
      [] OTHER -> scope

\* the members of the enum UserRole, by value, in increasing privilege
Roles == {"user", "moderator", "admin"}

\* NULL of the role column
NoRole == ""

\* the role values of a PUT /users/{user_id} body: the members, a string
\* that is no member, and null
RoleInputs == Roles \cup {"guest", NoRole}

RoleRank(role) ==
    CASE role = "user" -> 1
      [] role = "moderator" -> 2
      [] role = "admin" -> 3

\* variant: the moderator row lacks profile:write
ROLE_SCOPES_moderatorGap(role) ==
    CASE role = "user" ->
           {"user:read", "profile:read", "profile:write"}
      [] role = "moderator" ->
           {"user:read", "profile:read", "stats:read", "logs:read"}
      [] role = "admin" ->
           {"user:read", "user:write", "user:delete",
            "profile:read", "profile:write",
            "admin:read", "admin:write", "admin:delete",
            "stats:read", "logs:read"}
      [] OTHER -> {}

\* variant: a role outside the table gets the scopes of a user
ROLE_SCOPES_defaultUser(role) ==
    CASE role = "user" ->
           {"user:read", "profile:read", "profile:write"}
      [] role = "moderator" ->
           {"user:read", "profile:read", "profile:write",
            "stats:read", "logs:read"}
      [] role = "admin" ->
           {"user:read", "user:write", "user:delete",
            "profile:read", "profile:write",
            "admin:read", "admin:write", "admin:delete",
            "stats:read", "logs:read"}
      [] OTHER -> {"user:read", "profile:read", "profile:write"}

\* scopes.ROLE_SCOPES with the .get(role, []) of get_user_scopes
ROLE_SCOPES(role) ==
    CASE role = "user" ->
           {"user:read", "profile:read", "profile:write"}
      [] role = "moderator" ->
           {"user:read", "profile:read", "profile:write",
            "stats:read", "logs:read"}
      [] role = "admin" ->
           {"user:read", "user:write", "user:delete",
            "profile:read", "profile:write",
            "admin:read", "admin:write", "admin:delete",
            "stats:read", "logs:read"}
      [] OTHER -> {}

get_user_scopes(user) == ROLE_SCOPES(user.role)

\* outcome of the bearer-token dependency for the holder u of an access
\* token that decodes: the user row must exist and be active
get_current_user(us, u) ==
    IF u = NoUser THEN "Unauthenticated"
    ELSE IF ~us[u].exists THEN "Unauthenticated"
    ELSE IF ~us[u].is_active THEN "Forbidden"
    ELSE "OK"

\* the same with required scopes, checked against the role of the row
get_user_with_scopes(us, u, required) ==
    IF get_current_user(us, u) # "OK" THEN get_current_user(us, u)
    ELSE IF ~(required \subseteq get_user_scopes(us[u])) THEN "Forbidden"
    ELSE "OK"

\* the bearer tokens a client presents: the ones the server returned, a
\* token that does not verify for each subject, and a verifying token
\* without a sub claim
AccessTokens ==
    minted
    \cup {AccessToken(FALSE, u, {}, u, minutes(now)) :
             u \in UserIds \cup {NoUser}}
    \cup {AccessToken(TRUE, NoUser, {}, NoUser, minutes(now))}

\* the scope tuples of GET /users/me, GET /users/, DELETE /users/{id},
\* GET /admin/dashboard and DELETE /admin/users/{id}
RequiredScopes ==
    {<<"user:read">>, <<"admin:read", "user:read">>, <<"user:delete">>,
     <<"admin:read">>, <<"admin:delete", "user:delete">>}

\* variant: the last missing scope of the tuple is the one reported
RECURSIVE first_missing_last(_, _)
first_missing_last(required, scopes) ==
    IF required = << >> THEN ""
    ELSE IF first_missing_last(Tail(required), scopes) # ""
    THEN first_missing_last(Tail(required), scopes)
    ELSE IF Head(required) \notin scopes THEN Head(required)
    ELSE ""

\* first scope of the tuple required that is not in scopes, "" if none
RECURSIVE first_missing(_, _)
first_missing(required, scopes) ==
    IF required = << >> THEN ""
    ELSE IF Head(required) \notin scopes THEN Head(required)
    ELSE first_missing(Tail(required), scopes)

\* variant: the scopes are compared before the account is looked at
dependency_scopeFirst(us, token, required, at) ==
    IF ~jwt_decodes(token, at) \/ token.sub = NoUser
    THEN [status |-> "Unauthenticated",
          detail |-> "Could not validate credentials", user |-> NoUser]
    ELSE IF ~us[token.sub].exists
    THEN [status |-> "Unauthenticated",
          detail |-> "Could not validate credentials", user |-> NoUser]
    ELSE IF first_missing(required, get_user_scopes(us[token.sub])) # ""
    THEN [status |-> "Forbidden",
          detail |-> first_missing(required, get_user_scopes(us[token.sub])),
          user |-> NoUser]
    ELSE IF ~us[token.sub].is_active
    THEN [status |-> "Forbidden", detail |-> "Inactive user", user |-> NoUser]
    ELSE [status |-> "OK", detail |-> "", user |-> token.sub]

\* variant: the scopes claim of the token is what is compared
dependency_tokenScopes(us, token, required, at) ==
    IF ~jwt_decodes(token, at) \/ token.sub = NoUser
    THEN [status |-> "Unauthenticated",
          detail |-> "Could not validate credentials", user |-> NoUser]
    ELSE IF ~us[token.sub].exists
    THEN [status |-> "Unauthenticated",
          detail |-> "Could not validate credentials", user |-> NoUser]
    ELSE IF ~us[token.sub].is_active
    THEN [status |-> "Forbidden", detail |-> "Inactive user", user |-> NoUser]
    ELSE IF \E i \in DOMAIN required : str(required[i]) \notin token.scopes
    THEN [status |-> "Forbidden",
          detail |-> required[CHOOSE i \in DOMAIN required :
                                 str(required[i]) \notin token.scopes],
          user |-> NoUser]
    ELSE [status |-> "OK", detail |-> "", user |-> token.sub]

\* variant: a scope in the scopes claim of the token counts as held
dependency_tokenGrants(us, token, required, at) ==
    IF ~jwt_decodes(token, at) \/ token.sub = NoUser
    THEN [status |-> "Unauthenticated",
          detail |-> "Could not validate credentials", user |-> NoUser]
    ELSE IF ~us[token.sub].exists
    THEN [status |-> "Unauthenticated",
          detail |-> "Could not validate credentials", user |-> NoUser]
    ELSE IF ~us[token.sub].is_active
    THEN [status |-> "Forbidden", detail |-> "Inactive user", user |-> NoUser]
    ELSE IF first_missing(required,
               get_user_scopes(us[token.sub])
               \cup {x \in ROLE_SCOPES("admin") : str(x) \in token.scopes}) # ""
    THEN [status |-> "Forbidden",
          detail |-> first_missing(required,
               get_user_scopes(us[token.sub])
               \cup {x \in ROLE_SCOPES("admin") : str(x) \in token.scopes}),
          user |-> NoUser]
    ELSE [status |-> "OK", detail |-> "", user |-> token.sub]

\* scopes.get_user_with_scopes, the inner dependency, on a bearer token:
\* the outcome, the detail of a refusal (the scope named, for a missing
\* scope) and the user returned
dependency(us, token, required, at) ==
    IF ~jwt_decodes(token, at) \/ token.sub = NoUser
    THEN [status |-> "Unauthenticated",
          detail |-> "Could not validate credentials", user |-> NoUser]
    ELSE IF ~us[token.sub].exists
    THEN [status |-> "Unauthenticated",
          detail |-> "Could not validate credentials", user |-> NoUser]
    ELSE IF ~us[token.sub].is_active
    THEN [status |-> "Forbidden", detail |-> "Inactive user", user |-> NoUser]
    ELSE IF first_missing(required, get_user_scopes(us[token.sub])) # ""
    THEN [status |-> "Forbidden",
          detail |-> first_missing(required, get_user_scopes(us[token.sub])),
          user |-> NoUser]
    ELSE [status |-> "OK", detail |-> "", user |-> token.sub]

\* ----------------------------------------------------------------- login
\* "if expires_delta:" of create_access_token: an Optional timedelta, None
\* or {m} for m minutes, is taken when it is given and is not zero
truthy(expires_delta) == expires_delta # None /\ expires_delta # {0}

\* the exp claim create_access_token signs at the minute at
expire(expires_delta, at) ==
    IF truthy(expires_delta)
    THEN at + (CHOOSE m \in expires_delta : TRUE)
    ELSE at + ACCESS_TOKEN_EXPIRE_MINUTES

\* security.create_access_token: the payload that is signed; lines 51-53
\* replace every scope by its str()
create_access_token(data, expires_delta, at) ==
    AccessToken(TRUE, data.sub, {str(scope) : scope \in data.scopes},
                data.user_id, expire(expires_delta, at))

\* security.decode_token: the payload, or the 401 (ok false)
decode_token(token, at) ==
    IF jwt_decodes(token, at)
    THEN [ok |-> TRUE, sub |-> token.sub, scopes |-> token.scopes,
          user_id |-> token.user_id, exp |-> token.exp]
    ELSE [ok |-> FALSE, sub |-> NoUser, scopes |-> {}, user_id |-> NoUser,
          exp |-> 0]

\* security.create_tokens_for_user, as routes returns it (lines 98-103)
create_tokens_for_user(user_data, refresh_token_str, at) ==
    [access_token |-> create_access_token(user_data,
                         {ACCESS_TOKEN_EXPIRE_MINUTES}, minutes(at)),
     token_type |-> "bearer",
     refresh_token |-> refresh_token_str,
     expires_in |-> ACCESS_TOKEN_EXPIRE_MINUTES * 60]

\* crud.update_user_login
update_user_login(us, user_id, at) ==
    IF us[user_id].exists
    THEN [us EXCEPT ![user_id].last_login = {at}]
    ELSE us

\* variant: an unknown username is told apart from a wrong password
login_status_distinguishes(us, name, pwOk) ==
    IF name = NoUser THEN "UnknownUser"
    ELSE IF ~us[name].exists THEN "UnknownUser"
    ELSE IF ~pwOk THEN "AuthFailure"
    ELSE IF ~us[name].is_active THEN "InactiveAccount"
    ELSE "OK"

\* variant: the active flag is not tested
login_status_noActiveCheck(us, name, pwOk) ==
    IF name = NoUser THEN "AuthFailure"
    ELSE IF ~us[name].exists \/ ~pwOk THEN "AuthFailure"
    ELSE "OK"

\* routes.login_for_access_token, lines 37-52: the two refusals
login_status(us, name, pwOk) ==
    IF name = NoUser THEN "AuthFailure"
    ELSE IF ~us[name].exists \/ ~pwOk THEN "AuthFailure"
    ELSE IF ~us[name].is_active THEN "InactiveAccount"
    ELSE "OK"

\* ----------------------------------------------------------- token store
RefreshToken(id, token, user_id, expires_at) ==
    [id |-> id, token |-> token, user_id |-> user_id,
     expires_at |-> expires_at, revoked |-> FALSE, revoked_at |-> None]

\* security.create_refresh_token: expiry of a string minted at day at
create_refresh_token_expiry(at) == at + REFRESH_TOKEN_EXPIRE_DAYS

\* variant: the row is stored already revoked
create_refresh_token_revoked(s, id, token, user_id, expires_at) ==
    [x \in DOMAIN s \cup {token} |->
        IF x = token
        THEN [RefreshToken(id, token, user_id, expires_at)
              EXCEPT !.revoked = TRUE]
        ELSE s[x]]

\* crud.create_refresh_token: insert the row
create_refresh_token(s, id, token, user_id, expires_at) ==
    [x \in DOMAIN s \cup {token} |->
        IF x = token THEN RefreshToken(id, token, user_id, expires_at)
        ELSE s[x]]

\* crud.get_refresh_token: is there a row with this string
get_refresh_token(s, token) == token \in DOMAIN s

\* a DateTime column of the default SQLite database: a stored instant is
\* its UTC wall clock (here the day), loaded as a datetime without tzinfo,
\* and the tzinfo of a datetime is dropped when it is stored
column_load(v) == [day |-> v, tzinfo |-> FALSE]

column_store(dt) == dt.day

\* variant: a datetime without tzinfo is read as the local time of a host
\* east of UTC and converted, which at midnight is the day before
ensure_timezone_asLocal(dt) ==
    IF ~dt.tzinfo THEN [day |-> dt.day - 1, tzinfo |-> TRUE] ELSE dt

\* security.ensure_timezone: replace(tzinfo=timezone.utc) on a datetime
\* without tzinfo
ensure_timezone(dt) ==
    IF ~dt.tzinfo THEN [dt EXCEPT !.tzinfo = TRUE] ELSE dt

\* the table after crud.get_refresh_token: lines 311-322 assign
\* ensure_timezone of expires_at and revoked_at to the row found and commit
get_refresh_token_commit(s, token) ==
    IF token \in DOMAIN s
    THEN [s EXCEPT
            ![token].expires_at =
                column_store(ensure_timezone(column_load(@))),
            ![token].revoked_at =
                {column_store(ensure_timezone(column_load(d))) : d \in @}]
    ELSE s

\* the table after lines 116 and 130-134 of refresh_access_token: the
\* lookup, and for a row found the same assignment to expires_at, committed
refresh_lookup(s, token) ==
    IF token \in DOMAIN s
    THEN [get_refresh_token_commit(s, token) EXCEPT
            ![token].expires_at =
                column_store(ensure_timezone(column_load(@)))]
    ELSE s

\* variant: the flag is set, the timestamp is not
revoke_token_noStamp(s, token_string, at) ==
    IF token_string \in DOMAIN s
    THEN [s EXCEPT ![token_string].revoked = TRUE]
    ELSE s

\* variant: the flag is flipped instead of set
revoke_token_toggle(s, token_string, at) ==
    IF token_string \in DOMAIN s
    THEN [s EXCEPT ![token_string].revoked = ~s[token_string].revoked,
                   ![token_string].revoked_at = {at}]
    ELSE s

\* crud.revoke_token
revoke_token(s, token_string, at) ==
    IF token_string \in DOMAIN s
    THEN [s EXCEPT ![token_string].revoked = TRUE,
                   ![token_string].revoked_at = {at}]
    ELSE s

\* crud.revoke_refresh_token (by primary key)
revoke_refresh_token(s, token_id, at) ==
    [x \in DOMAIN s |->
        IF s[x].id = token_id
        THEN [s[x] EXCEPT !.revoked = TRUE, !.revoked_at = {at}]
        ELSE s[x]]

\* variant: the revoked flag is not part of the filter
revoke_all_selected_anyState(s, user_id) ==
    {x \in DOMAIN s : s[x].user_id = user_id}

\* variant: the owner is not part of the filter
revoke_all_selected_everyUser(s, user_id) ==
    {x \in DOMAIN s : ~s[x].revoked}

\* crud.revoke_all_user_tokens: the rows it selects, and the update
revoke_all_selected(s, user_id) ==
    {x \in DOMAIN s : s[x].user_id = user_id /\ ~s[x].revoked}

\* variant: the bulk revocation sets the flag and leaves revoked_at
revoke_all_user_tokens_noStamp(s, user_id, at) ==
    [x \in DOMAIN s |->
        IF x \in revoke_all_selected(s, user_id)
        THEN [s[x] EXCEPT !.revoked = TRUE]
        ELSE s[x]]

\* crud.revoke_all_user_tokens: the update of the selected rows
revoke_all_user_tokens(s, user_id, at) ==
    [x \in DOMAIN s |->
        IF x \in revoke_all_selected(s, user_id)
        THEN [s[x] EXCEPT !.revoked = TRUE, !.revoked_at = {at}]
        ELSE s[x]]

\* variant: the cutoff day itself is deleted too
cleanup_selected_inclusive(s, at) ==
    {x \in DOMAIN s : s[x].expires_at <= at - RETENTION_DAYS}

\* variant: the retention window is added instead of subtracted
cleanup_selected_ahead(s, at) ==
    {x \in DOMAIN s : s[x].expires_at < at + RETENTION_DAYS}

\* crud.cleanup_expired_tokens: the rows it deletes, and the delete
cleanup_selected(s, at) ==
    {x \in DOMAIN s : s[x].expires_at < at - RETENTION_DAYS}

cleanup_expired_tokens(s, at) ==
    [x \in DOMAIN s \ cleanup_selected(s, at) |-> s[x]]

\* a users row that has been deleted
NoRow == [exists |-> FALSE, is_active |-> FALSE, role |-> "user",
          last_login |-> None, email |-> None, full_name |-> None,
          hashed_password |-> 0]

\* crud.delete_user on the users table
delete_user(us, user_id) == [us EXCEPT ![user_id] = NoRow]

\* crud.delete_user on the refresh_tokens table: db.delete(db_user) deletes
\* the rows of User.refresh_tokens (cascade="all, delete-orphan")
delete_user_tokens(s, user_id) ==
    [x \in {y \in DOMAIN s : s[y].user_id # user_id} |-> s[x]]

\* crud.is_token_valid
is_token_valid(s, refresh_token, at) ==
    IF refresh_token \notin DOMAIN s THEN FALSE
    ELSE IF s[refresh_token].revoked \/ s[refresh_token].expires_at < at
         THEN FALSE
         ELSE TRUE

\* ------------------------------------------------------ refresh endpoint
\* variant: the revoked flag is not tested
refresh_rejects_ignoresRevoked(rec, at) == rec.expires_at < at

\* variant: the expiry is not tested
refresh_rejects_ignoresExpiry(rec, at) == rec.revoked

\* routes.refresh_access_token, line 139: the rejection test on the row
refresh_rejects(rec, at) == rec.revoked \/ rec.expires_at < at

\* variant: the active flag of the owner is not tested
refresh_owner_ok_existsOnly(us, rec) == us[rec.user_id].exists

\* routes.refresh_access_token, line 152: the owner test
refresh_owner_ok(us, rec) ==
    us[rec.user_id].exists /\ us[rec.user_id].is_active

\* variant: a missing row is reported like a revoked one
refresh_status_conflated(s, us, t, at) ==
    IF ~get_refresh_token(s, t) THEN "TokenExpiredOrRevoked"
    ELSE IF refresh_rejects(s[t], at) THEN "TokenExpiredOrRevoked"
    ELSE IF ~refresh_owner_ok(us, s[t]) THEN "UserInactive"
    ELSE "OK"

\* outcome of the endpoint on a store, a user table, a string and a day
refresh_status(s, us, t, at) ==
    IF ~get_refresh_token(s, t) THEN "InvalidToken"
    ELSE IF refresh_rejects(s[t], at) THEN "TokenExpiredOrRevoked"
    ELSE IF ~refresh_owner_ok(us, s[t]) THEN "UserInactive"
    ELSE "OK"

\* the store the endpoint leaves; new is the string it mints on success
refresh_store(s, us, t, at, new) ==
    IF ~get_refresh_token(s, t) THEN s
    ELSE IF refresh_rejects(s[t], at)
         THEN IF ~s[t].revoked THEN revoke_token(s, t, at) ELSE s
    ELSE IF ~refresh_owner_ok(us, s[t]) THEN revoke_token(s, t, at)
    ELSE create_refresh_token(revoke_token(s, t, at), new, new,
                              s[t].user_id, create_refresh_token_expiry(at))

\* variant: the owner of the row is not compared with the requester
revoke_denied_noOwnerCheck(s, t, u) == ~get_refresh_token(s, t)

\* routes.revoke_refresh_token, line 223: the refusal test
revoke_denied(s, t, u) == ~get_refresh_token(s, t) \/ s[t].user_id # u

\* ------------------------------------------------------------------ Init
Init ==
    /\ now = 0
    /\ store = << >>
    /\ users = [u \in UserIds |->
                  [exists |-> TRUE, is_active |-> TRUE,
                   role |-> InitialRole(u),
                   last_login |-> None, email |-> {0}, full_name |-> None,
                   hashed_password |-> 0]]
    /\ issued = 0
    /\ resp = NoResponse
    /\ req = NoRequest
    /\ sweep = "scheduled"
    /\ minted = {}
    /\ server = [secret |-> TRUE, phase |-> "serving"]
    /\ redeemed = {}
    /\ wpc = [w \in Workers |-> "idle"]
    /\ wtok = [w \in Workers |-> NoToken]
    /\ wuid = [w \in Workers |-> NoUser]
    /\ wresp = [w \in Workers |-> NoResponse]
    /\ rotated = {}
    /\ replaced = {}

\* --------------------------------------------------- environment: clock
Tick ==
    /\ \E d \in Instants :
          /\ d > now
          /\ now' = d
    /\ resp' = NoResponse
    /\ req' = NoRequest
    /\ minted' = {t \in minted : jwt_decodes(t, minutes(now'))}
    /\ UNCHANGED <<store, users, issued, redeemed, sweep, server>>
    /\ UNCHANGED concVars

\* ------------------------------------------------- POST /users/token
\* name is a user id, or NoUser for a username without a row
Login ==
    \E name \in UserIds \cup {NoUser}, pwOk \in BOOLEAN :
       /\ IF login_status(users, name, pwOk) # "OK"
          THEN /\ req' = LoginRequest(name, pwOk, FALSE)
               /\ resp' = Response("login", NoUser, NoToken,
                              login_status(users, name, pwOk), NoToken, 0)
               /\ UNCHANGED <<store, issued, users, minted>>
          ELSE IF ~server.secret
          THEN \* jwt.encode raises on the missing key (security.py:56-61)
               /\ req' = LoginRequest(name, pwOk, FALSE)
               /\ resp' = Response("login", NoUser, NoToken, "InternalError",
                                   NoToken, 0)
               /\ UNCHANGED <<store, issued, users, minted>>
          ELSE /\ issued < MaxTokens
               /\ issued' = issued + 1
               /\ store' = create_refresh_token(store, issued + 1, issued + 1,
                              name, create_refresh_token_expiry(now))
               /\ \E fault \in BOOLEAN :
                     /\ req' = LoginRequest(name, pwOk, fault)
                     /\ IF fault
                        THEN /\ UNCHANGED <<users, minted>>
                             /\ resp' = Response("login", NoUser, NoToken,
                                            "InternalError", NoToken, 0)
                        ELSE /\ users' = update_user_login(users, name, now)
                             /\ resp' =
                                  [Response("login", name, NoToken, "OK",
                                            issued + 1, 0)
                                   EXCEPT !.grant = {create_tokens_for_user(
                                       [sub |-> name,
                                        scopes |-> get_user_scopes(users[name]),
                                        user_id |-> name],
                                       issued + 1, now)}]
                             /\ minted' = minted \cup
                                  {create_tokens_for_user(
                                       [sub |-> name,
                                        scopes |-> get_user_scopes(users[name]),
                                        user_id |-> name],
                                       issued + 1, now).access_token}
       /\ UNCHANGED <<now, redeemed, sweep, server>>
       /\ UNCHANGED concVars

\* ------------------------------------------- POST /users/refresh-token
Refresh ==
    \E t \in NoToken .. issued :
       /\ refresh_status(refresh_lookup(store, t), users, t, now) = "OK"
             => issued < MaxTokens
       /\ store' = refresh_store(refresh_lookup(store, t), users, t, now,
                                 issued + 1)
       /\ IF refresh_status(refresh_lookup(store, t), users, t, now) = "OK"
          THEN /\ issued' = issued + 1
               /\ redeemed' = redeemed \cup {t}
               /\ resp' =
                    [Response("refresh", NoUser, t, "OK", issued + 1, 0)
                     EXCEPT !.grant = {create_tokens_for_user(
                         [sub |-> store[t].user_id,
                          scopes |-> get_user_scopes(users[store[t].user_id]),
                          user_id |-> store[t].user_id],
                         issued + 1, now)}]
               /\ minted' = minted \cup
                    {create_tokens_for_user(
                         [sub |-> store[t].user_id,
                          scopes |-> get_user_scopes(users[store[t].user_id]),
                          user_id |-> store[t].user_id],
                         issued + 1, now).access_token}
          ELSE /\ UNCHANGED <<issued, redeemed, minted>>
               /\ resp' = Response("refresh", NoUser, t,
                             refresh_status(refresh_lookup(store, t), users,
                                            t, now),
                             NoToken, 0)
       /\ req' = NoRequest
       /\ UNCHANGED <<now, users, sweep, server>>
       /\ UNCHANGED concVars

\* -------------------------------------------- POST /users/revoke-token
Revoke ==
    \E t \in NoToken .. issued, u \in UserIds \cup {NoUser} :
       /\ IF get_current_user(users, u) # "OK"
          THEN /\ resp' = Response("revoke", NoUser, t,
                                   get_current_user(users, u), NoToken, 0)
               /\ UNCHANGED store
          ELSE IF revoke_denied(store, t, u)
          THEN /\ resp' = Response("revoke", u, t, "BadRequest", NoToken, 0)
               /\ store' = get_refresh_token_commit(store, t)
          ELSE /\ store' = revoke_token(get_refresh_token_commit(store, t),
                                        t, now)
               /\ resp' = Response("revoke", u, t, "OK", NoToken, 0)
       /\ req' = NoRequest
       /\ UNCHANGED <<now, users, issued, redeemed, sweep, minted, server>>
       /\ UNCHANGED concVars

\* --------------------------------------- POST /users/revoke-all-tokens
RevokeAll ==
    \E u \in UserIds \cup {NoUser} :
       /\ IF get_current_user(users, u) # "OK"
          THEN /\ resp' = Response("revoke_all", NoUser, NoToken,
                                   get_current_user(users, u), NoToken, 0)
               /\ UNCHANGED store
          ELSE /\ store' = revoke_all_user_tokens(store, u, now)
               /\ resp' = Response("revoke_all", u, NoToken, "OK", NoToken,
                              Cardinality(revoke_all_selected(store, u)))
       /\ req' = NoRequest
       /\ UNCHANGED <<now, users, issued, redeemed, sweep, minted, server>>
       /\ UNCHANGED concVars

\* ----------------------------- crud.revoke_refresh_token (token store)
RevokeById ==
    \E id \in 1 .. issued :
       /\ store' = revoke_refresh_token(store, id, now)
       /\ resp' = Response("revoke_id", NoUser, id, "OK", NoToken, 0)
       /\ req' = NoRequest
       /\ UNCHANGED <<now, users, issued, redeemed, sweep, minted, server>>
       /\ UNCHANGED concVars

\* ------------------------------------- tasks.token_cleanup (background)
Purge ==
    /\ store' = cleanup_expired_tokens(store, now)
    /\ resp' = Response("purge", NoUser, NoToken, "OK", NoToken,
                        Cardinality(cleanup_selected(store, now)))
    /\ req' = NoRequest
    /\ UNCHANGED <<now, users, issued, redeemed, sweep, minted, server>>
    /\ UNCHANGED concVars

\* --------------------------------------- PUT /users/{user_id} (is_active)
UpdateUser ==
    \E a \in UserIds \cup {NoUser}, u \in UserIds, active \in BOOLEAN :
       /\ IF get_user_with_scopes(users, a, {"user:write"}) # "OK"
          THEN /\ resp' = Response("update_user", NoUser, NoToken,
                     get_user_with_scopes(users, a, {"user:write"}), NoToken, 0)
               /\ UNCHANGED users
          ELSE IF users[a].role # "admin" /\ a # u
          THEN /\ resp' = Response("update_user", a, NoToken, "Forbidden",
                                   NoToken, 0)
               /\ UNCHANGED users
          ELSE IF ~users[u].exists
          THEN /\ resp' = Response("update_user", a, NoToken, "NotFound",
                                   NoToken, 0)
               /\ UNCHANGED users
          ELSE /\ users' = [users EXCEPT ![u].is_active = active]
               /\ resp' = Response("update_user", a, NoToken, "OK", NoToken, 0)
       /\ req' = NoRequest
       /\ UNCHANGED <<now, store, issued, redeemed, sweep, minted, server>>
       /\ UNCHANGED concVars

Next ==
    \/ Tick
    \/ Login
    \/ Refresh
    \/ Revoke
    \/ RevokeAll
    \/ RevokeById
    \/ Purge
    \/ UpdateUser

Spec == Init /\ [][Next]_vars

\* ------------------------------------------------------------------------
\* POST /users/refresh-token served by worker w, one step per transaction
\* ------------------------------------------------------------------------
\* lines 115-125: look the string up
RStart(w) ==
    /\ wpc[w] = "idle"
    /\ \E t \in NoToken .. issued :
          /\ wtok' = [wtok EXCEPT ![w] = t]
          /\ IF ~get_refresh_token(store, t)
             THEN /\ wpc' = [wpc EXCEPT ![w] = "done"]
                  /\ wresp' = [wresp EXCEPT ![w] =
                        Response("refresh", NoUser, t, "InvalidToken", NoToken, 0)]
             ELSE /\ wpc' = [wpc EXCEPT ![w] = "found"]
                  /\ UNCHANGED wresp
          /\ store' = get_refresh_token_commit(store, t)
    /\ UNCHANGED <<now, users, issued, resp, req, sweep, minted, server,
                   redeemed, wuid, rotated, replaced>>

\* lines 127-159: reload the row, test it, load and test its owner
RCheck(w) ==
    /\ wpc[w] = "found"
    /\ IF ~get_refresh_token(store, wtok[w])
       THEN /\ wpc' = [wpc EXCEPT ![w] = "done"]
            /\ wresp' = [wresp EXCEPT ![w] =
                  Response("refresh", NoUser, wtok[w], "InternalError", NoToken, 0)]
            /\ UNCHANGED <<store, wuid>>
       ELSE IF refresh_rejects(refresh_lookup(store, wtok[w])[wtok[w]], now)
       THEN /\ store' = IF ~store[wtok[w]].revoked
                        THEN revoke_token(refresh_lookup(store, wtok[w]),
                                          wtok[w], now)
                        ELSE refresh_lookup(store, wtok[w])
            /\ wpc' = [wpc EXCEPT ![w] = "done"]
            /\ wresp' = [wresp EXCEPT ![w] =
                  Response("refresh", NoUser, wtok[w], "TokenExpiredOrRevoked", NoToken, 0)]
            /\ UNCHANGED wuid
       ELSE IF ~refresh_owner_ok(users, store[wtok[w]])
       THEN /\ store' = revoke_token(refresh_lookup(store, wtok[w]),
                                     wtok[w], now)
            /\ wpc' = [wpc EXCEPT ![w] = "done"]
            /\ wresp' = [wresp EXCEPT ![w] =
                  Response("refresh", NoUser, wtok[w], "UserInactive", NoToken, 0)]
            /\ UNCHANGED wuid
       ELSE /\ wpc' = [wpc EXCEPT ![w] = "valid"]
            /\ wuid' = [wuid EXCEPT ![w] = store[wtok[w]].user_id]
            /\ store' = refresh_lookup(store, wtok[w])
            /\ UNCHANGED wresp
    /\ UNCHANGED <<now, users, issued, resp, req, sweep, minted, server,
                   redeemed, wtok, rotated, replaced>>

\* lines 161-162: revoke the presented string, committed on its own
RRevoke(w) ==
    /\ wpc[w] = "valid"
    /\ store' = revoke_token(store, wtok[w], now)
    /\ rotated' = IF get_refresh_token(store, wtok[w])
                  THEN rotated \cup {wtok[w]} ELSE rotated
    /\ wpc' = [wpc EXCEPT ![w] = "revoked"]
    /\ UNCHANGED <<now, users, issued, resp, req, sweep, minted, server,
                   redeemed, wtok, wuid, wresp, replaced>>

\* lines 164-210: mint the new pair, store the new row, answer
RInsert(w) ==
    /\ wpc[w] = "revoked"
    /\ issued' = issued + 1
    /\ store' = create_refresh_token(store, issued + 1, issued + 1, wuid[w],
                                     create_refresh_token_expiry(now))
    /\ replaced' = replaced \cup {wtok[w]}
    /\ redeemed' = redeemed \cup {wtok[w]}
    /\ wpc' = [wpc EXCEPT ![w] = "done"]
    /\ wresp' = [wresp EXCEPT ![w] =
          [Response("refresh", NoUser, wtok[w], "OK", issued + 1, 0)
           EXCEPT !.grant = {create_tokens_for_user(
               [sub |-> wuid[w],
                scopes |-> get_user_scopes(users[wuid[w]]),
                user_id |-> wuid[w]],
               issued + 1, now)}]]
    /\ minted' = minted \cup
         {create_tokens_for_user(
              [sub |-> wuid[w],
               scopes |-> get_user_scopes(users[wuid[w]]),
               user_id |-> wuid[w]],
              issued + 1, now).access_token}
    /\ UNCHANGED <<now, users, resp, req, sweep, server, wtok, wuid, rotated>>

\* the request ends between two transactions: an exception (signing,
\* database), a cancelled request, a worker that is killed
RAbort(w) ==
    /\ wpc[w] \in {"found", "valid", "revoked"}
    /\ wpc' = [wpc EXCEPT ![w] = "aborted"]
    /\ wresp' = [wresp EXCEPT ![w] =
          Response("refresh", NoUser, wtok[w], "Aborted", NoToken, 0)]
    /\ UNCHANGED <<now, store, users, issued, resp, req, sweep, minted,
                   server, redeemed, wtok, wuid, rotated, replaced>>

NextConc ==
    \/ Login
    \/ Revoke
    \/ RevokeAll
    \/ \E w \in Workers : RStart(w)
    \/ \E w \in Workers : RCheck(w)
    \/ \E w \in Workers : RRevoke(w)
    \/ \E w \in Workers : RInsert(w)
    \/ \E w \in Workers : RAbort(w)

SpecConc == Init /\ [][NextConc]_vars

\* ------------------------------------------------------------------------
\* Accounts and scope-protected endpoints
\* ------------------------------------------------------------------------
\* the JSON body of a request on an account: each key is absent (None)
\* or carries one value; role and is_active are keys a client can add to
\* any body
Body(email, full_name, password, role, is_active) ==
    [email |-> email, full_name |-> full_name, password |-> password,
     role |-> role, is_active |-> is_active]

NoBody == Body(None, None, None, None, None)

\* the bodies sent (addresses are not told apart; the password has 8
\* characters): none of the keys, a name, a password, and bodies that add a
\* role or an active flag
Bodies ==
    {NoBody,
     Body({0}, {1}, None, None, None),
     Body({0}, None, {1}, None, None),
     Body({0}, {1}, {1}, {"admin"}, None),
     Body({0}, {1}, None, {"admin"}, None),
     Body({0}, None, None, None, {FALSE}),
     Body({0}, {1}, {1}, {"admin"}, {FALSE})}

\* a request on /users/{target} or /users/me by the account caller
\* (NoUser: no account is authenticated)
AccountRequest(caller, target) == [caller |-> caller, target |-> target]

\* the same with the body that was sent
BodyRequest(caller, target, body) ==
    [caller |-> caller, target |-> target, body |-> body]

\* DELETE /users/{user_id}
DeleteUser ==
    \E a \in UserIds \cup {NoUser}, u \in UserIds :
       /\ IF get_user_with_scopes(users, a, {"user:delete"}) # "OK"
          THEN /\ resp' = Response("delete_user", NoUser, NoToken,
                     get_user_with_scopes(users, a, {"user:delete"}), NoToken, 0)
               /\ UNCHANGED <<users, store>>
          ELSE IF u # a /\ "admin:delete" \notin get_user_scopes(users[a])
          THEN /\ resp' = Response("delete_user", a, NoToken, "Forbidden",
                                   NoToken, 0)
               /\ UNCHANGED <<users, store>>
          ELSE IF ~users[u].exists
          THEN /\ resp' = Response("delete_user", a, NoToken, "NotFound",
                                   NoToken, 0)
               /\ UNCHANGED <<users, store>>
          ELSE /\ users' = delete_user(users, u)
               /\ store' = delete_user_tokens(store, u)
               /\ resp' = Response("delete_user", a, NoToken, "OK", NoToken, u)
       /\ req' = AccountRequest(a, u)
       /\ UNCHANGED <<now, issued, redeemed, sweep, minted, server>>
       /\ UNCHANGED concVars

\* variant: a bearer token is refused once its subject has no refresh row
\* that is not revoked
depends_sessionBound(s, us, token, required, at) ==
    IF /\ token.sub # NoUser
       /\ \A x \in DOMAIN s : s[x].user_id = token.sub => s[x].revoked
    THEN [status |-> "Unauthenticated",
          detail |-> "Could not validate credentials", user |-> NoUser]
    ELSE dependency(us, token, required, at)

\* Depends(get_user_with_scopes(*required)) as a route resolves it: the
\* dependency is handed the database session (db: Session =
\* Depends(get_db)), with the refresh_tokens table s and the users table
\* us, and queries the users table only
depends(s, us, token, required, at) == dependency(us, token, required, at)

\* a request to an endpoint behind get_user_with_scopes(*required)
Authorize ==
    \E token \in AccessTokens, required \in RequiredScopes :
       /\ req' = ScopedRequest(token, required)
       /\ resp' = [Response("authorize",
                            depends(store, users, token, required,
                                    minutes(now)).user,
                            NoToken,
                            depends(store, users, token, required,
                                    minutes(now)).status,
                            NoToken, 0)
                   EXCEPT !.detail =
                       depends(store, users, token, required,
                               minutes(now)).detail]
       /\ UNCHANGED <<now, store, users, issued, redeemed, sweep, minted,
                      server>>
       /\ UNCHANGED concVars

\* schemas.UserUpdate.validate_role: the value crud.update_user assigns
validate_role(v) ==
    IF v = NoRole THEN NoRole
    ELSE IF v \in Roles THEN v
    ELSE "user"

\* PUT /users/{user_id} with a body that sets role
UpdateRole ==
    \E a \in UserIds \cup {NoUser}, u \in UserIds, v \in RoleInputs :
       /\ IF get_user_with_scopes(users, a, {"user:write"}) # "OK"
          THEN /\ resp' = Response("update_role", NoUser, NoToken,
                     get_user_with_scopes(users, a, {"user:write"}), NoToken, 0)
               /\ UNCHANGED users
          ELSE IF users[a].role # "admin" /\ a # u
          THEN /\ resp' = Response("update_role", a, NoToken, "Forbidden",
                                   NoToken, 0)
               /\ UNCHANGED users
          ELSE IF ~users[u].exists
          THEN /\ resp' = Response("update_role", a, NoToken, "NotFound",
                                   NoToken, 0)
               /\ UNCHANGED users
          ELSE \* the row is committed, then the answer is built from it
               \* through UserInDB (role: str); whether the enum member
               \* or NULL passes depends on the pydantic in use
               /\ users' = [users EXCEPT ![u].role = validate_role(v)]
               /\ \E status \in {"OK", "InternalError"} :
                     resp' = Response("update_role", a, NoToken, status,
                                      NoToken, u)
       /\ req' = NoRequest
       /\ UNCHANGED <<now, store, issued, redeemed, sweep, minted, server>>
       /\ UNCHANGED concVars

NextRoles ==
    \/ Login
    \/ UpdateRole
    \/ Authorize

SpecRoles == Init /\ [][NextRoles]_vars

\* the lifetimes a caller passes to create_access_token: none, and
\* timedeltas of 0, 15 and 30 minutes
Lifetimes == {None, {0}, {15}, {30}}

\* minutes between the signing of a token and its decoding
Delays == {0, 14, 16, 29, 31}

\* the claims the callers pass: sub, user_id and the scope list
\* get_user_scopes returned for a role
ClaimSets ==
    [sub : UserIds, scopes : {ROLE_SCOPES(r) : r \in RoleInputs},
     user_id : UserIds]

RoundTripRequest(data, expires_delta, delay) ==
    [data |-> data, expires_delta |-> expires_delta, delay |-> delay]

\* decode_token(create_access_token(data, expires_delta)), the decoding
\* delay minutes after the signing
RoundTrip ==
    \E data \in ClaimSets, expires_delta \in Lifetimes, delay \in Delays :
       /\ server.secret
       /\ req' = RoundTripRequest(data, expires_delta, delay)
       /\ resp' =
            [Response("round_trip", NoUser, NoToken,
                IF decode_token(
                      create_access_token(data, expires_delta, minutes(now)),
                      minutes(now) + delay).ok
                THEN "OK" ELSE "Unauthenticated", NoToken, 0)
             EXCEPT !.grant = {decode_token(
                      create_access_token(data, expires_delta, minutes(now)),
                      minutes(now) + delay)}]
       /\ UNCHANGED <<now, store, users, issued, redeemed, sweep, minted,
                      server>>
       /\ UNCHANGED concVars

NextToken ==
    \/ Tick
    \/ RoundTrip

SpecToken == Init /\ [][NextToken]_vars

\* variant: every caller with user:read may read every account
read_user_denied_noOwnerCheck(us, a, u) == FALSE

\* line 366 of read_user: not the own id and no admin:read
read_user_denied(us, a, u) ==
    u # a /\ "admin:read" \notin get_user_scopes(us[a])

\* GET /users/{user_id}; the body of the answer is built from the row
\* through UserInDB (role: str), which may reject the enum member
ReadUser ==
    \E a \in UserIds \cup {NoUser}, u \in UserIds :
       /\ req' = AccountRequest(a, u)
       /\ IF get_user_with_scopes(users, a, {"user:read"}) # "OK"
          THEN resp' = Response("read_user", NoUser, NoToken,
                          get_user_with_scopes(users, a, {"user:read"}),
                          NoToken, 0)
          ELSE IF read_user_denied(users, a, u)
          THEN resp' = Response("read_user", a, NoToken, "Forbidden",
                                NoToken, 0)
          ELSE IF ~users[u].exists
          THEN resp' = Response("read_user", a, NoToken, "NotFound",
                                NoToken, 0)
          ELSE \/ resp' = [Response("read_user", a, NoToken, "OK", NoToken, u)
                           EXCEPT !.grant = {users[u]}]
               \/ resp' = Response("read_user", a, NoToken, "InternalError",
                                   NoToken, 0)
       /\ UNCHANGED <<now, store, users, issued, redeemed, sweep, minted,
                      server>>
       /\ UNCHANGED concVars

\* variant: the role of the body is passed on to crud.update_user
profile_update_data_withRole(body) ==
    [k \in {"email", "full_name"}
           \cup (IF body.password # None THEN {"hashed_password"} ELSE {})
           \cup (IF body.role # None THEN {"role"} ELSE {}) |->
        CASE k = "email" -> body.email
          [] k = "full_name" -> body.full_name
          [] k = "hashed_password" -> CHOOSE x \in body.password : TRUE
          [] k = "role" -> CHOOSE x \in body.role : TRUE]

\* update_user_profile, lines 263-275, and lines 153-157 of
\* crud.update_user: the fields set in the UserUpdate it builds.  email
\* and full_name are passed to the constructor, so they are set, with
\* None when the body has none; password is set when the body has one;
\* ProfileUpdate has no other field of the row
profile_update_data(body) ==
    [k \in {"email", "full_name"}
           \cup (IF body.password # None THEN {"hashed_password"} ELSE {}) |->
        CASE k = "email" -> body.email
          [] k = "full_name" -> body.full_name
          [] k = "hashed_password" -> CHOOSE x \in body.password : TRUE]

\* crud.update_user, lines 163-167: setattr of every key, then the commit,
\* which fails on a NULL email (nullable=False)
update_user(us, user_id, update_data) ==
    IF "email" \in DOMAIN update_data /\ update_data["email"] = None
    THEN [ok |-> FALSE, table |-> us]
    ELSE [ok |-> TRUE,
          table |-> [us EXCEPT ![user_id] =
                       [k \in DOMAIN us[user_id] |->
                          IF k \in DOMAIN update_data
                          THEN update_data[k] ELSE us[user_id][k]]]]

\* PUT /users/me
UpdateProfile ==
    \E a \in UserIds \cup {NoUser}, body \in Bodies :
       /\ req' = BodyRequest(a, a, body)
       /\ IF get_user_with_scopes(users, a, {"profile:write"}) # "OK"
          THEN /\ resp' = Response("update_profile", NoUser, NoToken,
                     get_user_with_scopes(users, a, {"profile:write"}),
                     NoToken, 0)
               /\ UNCHANGED users
          ELSE /\ users' = update_user(users, a,
                               profile_update_data(body)).table
               /\ \E status \in {"OK", "InternalError"} :
                     /\ ~update_user(users, a, profile_update_data(body)).ok
                           => status = "InternalError"
                     /\ resp' = Response("update_profile", a, NoToken,
                                         status, NoToken, a)
       /\ UNCHANGED <<now, store, issued, redeemed, sweep, minted, server>>
       /\ UNCHANGED concVars

\* schemas.UserCreate.validate_role and lines 78-92 of crud.create_user
create_user_role(body) ==
    IF body.role = None THEN "user"
    ELSE validate_role(CHOOSE x \in body.role : TRUE)

\* POST /users/: the new row takes an id that has no row
CreateUser ==
    \E a \in UserIds \cup {NoUser}, u \in UserIds, body \in Bodies :
       /\ body.email # None /\ body.password # None
       /\ body.is_active = None
       /\ ~users[u].exists
       /\ req' = BodyRequest(a, u, body)
       /\ IF get_user_with_scopes(users, a, {"user:write"}) # "OK"
          THEN /\ resp' = Response("create_user", NoUser, NoToken,
                     get_user_with_scopes(users, a, {"user:write"}),
                     NoToken, 0)
               /\ UNCHANGED users
          ELSE IF users[a].role # "admin"
          THEN /\ resp' = Response("create_user", a, NoToken, "Forbidden",
                                   NoToken, 0)
               /\ UNCHANGED users
          ELSE /\ users' = [users EXCEPT ![u] =
                     [exists |-> TRUE, is_active |-> TRUE,
                      role |-> create_user_role(body),
                      last_login |-> None, email |-> body.email,
                      full_name |-> body.full_name,
                      hashed_password |-> CHOOSE x \in body.password : TRUE]]
               /\ \E status \in {"OK", "InternalError"} :
                     resp' = Response("create_user", a, NoToken, status,
                                      NoToken, u)
       /\ UNCHANGED <<now, store, issued, redeemed, sweep, minted, server>>
       /\ UNCHANGED concVars

\* POST /users/change-password; pwOk: current_password verifies
ChangePassword ==
    \E a \in UserIds \cup {NoUser}, pwOk \in BOOLEAN :
       /\ req' = AccountRequest(a, a)
       /\ IF get_user_with_scopes(users, a, {"user:write"}) # "OK"
          THEN /\ resp' = Response("change_password", NoUser, NoToken,
                     get_user_with_scopes(users, a, {"user:write"}),
                     NoToken, 0)
               /\ UNCHANGED users
          ELSE IF ~pwOk
          THEN /\ resp' = Response("change_password", a, NoToken,
                                   "BadRequest", NoToken, 0)
               /\ UNCHANGED users
          ELSE /\ users' = [users EXCEPT ![a].hashed_password = 1]
               /\ resp' = Response("change_password", a, NoToken, "OK",
                                   NoToken, 0)
       /\ UNCHANGED <<now, store, issued, redeemed, sweep, minted, server>>
       /\ UNCHANGED concVars

NextAccounts ==
    \/ UpdateRole
    \/ UpdateUser
    \/ DeleteUser
    \/ ReadUser
    \/ CreateUser

SpecAccounts == Init /\ [][NextAccounts]_vars

\* a database without an admin: account 1 is a user or a moderator,
\* account 2 is one too or has no row
InitNonAdmin ==
    /\ now = 0
    /\ store = << >>
    /\ \E r1 \in {"user", "moderator"}, r2 \in {"user", "moderator", NoRole} :
          users = [u \in UserIds |->
                     IF u = 2 /\ r2 = NoRole THEN NoRow
                     ELSE [exists |-> TRUE, is_active |-> TRUE,
                           role |-> IF u = 1 THEN r1 ELSE r2,
                           last_login |-> None, email |-> {0},
                           full_name |-> None, hashed_password |-> 0]]
    /\ issued = 0
    /\ resp = NoResponse
    /\ req = NoRequest
    /\ sweep = "scheduled"
    /\ minted = {}
    /\ server = [secret |-> TRUE, phase |-> "serving"]
    /\ redeemed = {}
    /\ wpc = [w \in Workers |-> "idle"]
    /\ wtok = [w \in Workers |-> NoToken]
    /\ wuid = [w \in Workers |-> NoUser]
    /\ wresp = [w \in Workers |-> NoResponse]
    /\ rotated = {}
    /\ replaced = {}

NextNonAdmin ==
    \/ Login
    \/ Refresh
    \/ Revoke
    \/ UpdateProfile
    \/ UpdateUser
    \/ CreateUser
    \/ ChangePassword

SpecNonAdmin == InitNonAdmin /\ [][NextNonAdmin]_vars

\* sessions and the requests they authorize within the lifetime of the
\* access tokens: logins, revocations, deactivations and requests with a
\* bearer token
NextSession ==
    \/ Login
    \/ Revoke
    \/ RevokeAll
    \/ UpdateUser
    \/ Authorize

SpecSession == Init /\ [][NextSession]_vars

NextAdmin ==
    \/ Login
    \/ Refresh
    \/ RevokeAll
    \/ Purge
    \/ UpdateUser
    \/ DeleteUser
    \/ Authorize

SpecAdmin == Init /\ [][NextAdmin]_vars

\* ------------------------------------------------------------------------
\* The unique index on refresh_tokens.token.  In this specification the
\* table is indexed by the primary key id, so that two rows can carry the
\* same string, and the strings secrets.token_urlsafe returns are drawn
\* from a set small enough for a string to come twice.
\* ------------------------------------------------------------------------
MaxRows == 3

Strings == 1 .. 3

\* request whose handler ran create_refresh_token on the string saved
\* (None: the handler did not get that far)
SaveRequest(saved) == [saved |-> saved]

\* the ids of the rows that carry the string
rows_with(s, token) == {i \in DOMAIN s : s[i].token = token}

\* .filter(RefreshToken.token == token).first()
first_with(s, token) ==
    CHOOSE i \in rows_with(s, token) : \A j \in rows_with(s, token) : i <= j

\* variant: the column has no unique index
insert_refresh_token_noIndex(s, row) ==
    [ok |-> TRUE,
     table |-> [i \in DOMAIN s \cup {row.id} |->
                  IF i = row.id THEN row ELSE s[i]]]

\* db.add and db.commit of crud.create_refresh_token under the unique
\* index of models.py:84: the commit of a string that a row carries raises
\* IntegrityError and inserts nothing
insert_refresh_token(s, row) ==
    IF rows_with(s, row.token) # {}
    THEN [ok |-> FALSE, table |-> s]
    ELSE [ok |-> TRUE,
          table |-> [i \in DOMAIN s \cup {row.id} |->
                       IF i = row.id THEN row ELSE s[i]]]

\* crud.revoke_token on the table indexed by id
revoke_first_with(s, token, at) ==
    IF rows_with(s, token) = {} THEN s
    ELSE [s EXCEPT ![first_with(s, token)].revoked = TRUE,
                   ![first_with(s, token)].revoked_at = {at}]

\* POST /users/token with the right password of an active account; the
\* string generated is new
SaveLogin ==
    \E name \in UserIds, new \in Strings :
       /\ login_status(users, name, TRUE) = "OK"
       /\ issued < MaxRows
       /\ req' = SaveRequest({new})
       /\ store' = insert_refresh_token(store,
                       RefreshToken(issued + 1, new, name,
                                    create_refresh_token_expiry(now))).table
       /\ IF insert_refresh_token(store,
                RefreshToken(issued + 1, new, name,
                             create_refresh_token_expiry(now))).ok
          THEN /\ issued' = issued + 1
               /\ users' = update_user_login(users, name, now)
               /\ resp' = Response("login", name, NoToken, "OK", new, 0)
          ELSE /\ resp' = Response("login", NoUser, NoToken,
                                   "InternalError", NoToken, 0)
               /\ UNCHANGED <<issued, users>>
       /\ UNCHANGED <<now, redeemed, sweep, minted, server>>
       /\ UNCHANGED concVars

\* POST /users/refresh-token presenting the string t; new is the string
\* generated at line 174
SaveRefresh ==
    \E t \in Strings, new \in Strings :
       /\ IF rows_with(store, t) = {}
          THEN /\ resp' = Response("refresh", NoUser, t, "InvalidToken",
                                   NoToken, 0)
               /\ req' = SaveRequest(None)
               /\ UNCHANGED <<store, issued>>
          ELSE IF refresh_rejects(store[first_with(store, t)], now)
          THEN /\ resp' = Response("refresh", NoUser, t,
                                   "TokenExpiredOrRevoked", NoToken, 0)
               /\ req' = SaveRequest(None)
               /\ store' = IF ~store[first_with(store, t)].revoked
                            THEN revoke_first_with(store, t, now)
                            ELSE store
               /\ UNCHANGED issued
          ELSE IF ~refresh_owner_ok(users, store[first_with(store, t)])
          THEN /\ resp' = Response("refresh", NoUser, t, "UserInactive",
                                   NoToken, 0)
               /\ req' = SaveRequest(None)
               /\ store' = revoke_first_with(store, t, now)
               /\ UNCHANGED issued
          ELSE /\ issued < MaxRows
               /\ req' = SaveRequest({new})
               /\ store' = insert_refresh_token(
                     revoke_first_with(store, t, now),
                     RefreshToken(issued + 1, new,
                                  store[first_with(store, t)].user_id,
                                  create_refresh_token_expiry(now))).table
               /\ IF insert_refresh_token(
                        revoke_first_with(store, t, now),
                        RefreshToken(issued + 1, new,
                                     store[first_with(store, t)].user_id,
                                     create_refresh_token_expiry(now))).ok
                  THEN /\ issued' = issued + 1
                       /\ resp' = Response("refresh", NoUser, t, "OK", new, 0)
                  ELSE /\ UNCHANGED issued
                       /\ resp' = Response("refresh", NoUser, t,
                                           "InternalError", NoToken, 0)
       /\ UNCHANGED <<now, users, redeemed, sweep, minted, server>>
       /\ UNCHANGED concVars

NextSave ==
    \/ Tick
    \/ SaveLogin
    \/ SaveRefresh

SpecSave == Init /\ [][NextSave]_vars

\* ------------------------------------------------------------------------
\* One run of the server
\* ------------------------------------------------------------------------
\* main.start_token_cleanup_task: the thread calls run_token_cleanup once
\* and ends
StartupCleanup ==
    /\ sweep = "scheduled"
    /\ sweep' = "done"
    /\ store' = cleanup_expired_tokens(store, now)
    /\ resp' = Response("purge", NoUser, NoToken, "OK", NoToken,
                        Cardinality(cleanup_selected(store, now)))
    /\ req' = NoRequest
    /\ UNCHANGED <<now, users, issued, redeemed, minted, server>>
    /\ UNCHANGED concVars

\* a process as uvicorn starts it: SECRET_KEY is set in the environment or
\* it is not (security.py:19 reads it with os.getenv and no default), and
\* the lifespan hook has not run yet
InitBoot ==
    /\ now = 0
    /\ store = << >>
    /\ users = [u \in UserIds |->
                  [exists |-> TRUE, is_active |-> TRUE,
                   role |-> InitialRole(u),
                   last_login |-> None, email |-> {0}, full_name |-> None,
                   hashed_password |-> 0]]
    /\ issued = 0
    /\ resp = NoResponse
    /\ req = NoRequest
    /\ sweep = "scheduled"
    /\ minted = {}
    /\ server \in {[secret |-> k, phase |-> "starting"] : k \in BOOLEAN}
    /\ redeemed = {}
    /\ wpc = [w \in Workers |-> "idle"]
    /\ wtok = [w \in Workers |-> NoToken]
    /\ wuid = [w \in Workers |-> NoUser]
    /\ wresp = [w \in Workers |-> NoResponse]
    /\ rotated = {}
    /\ replaced = {}

\* main.lifespan up to its yield: logging, init_db and the two threads;
\* nothing reads SECRET_KEY
Startup ==
    /\ server.phase = "starting"
    /\ server' = [server EXCEPT !.phase = "serving"]
    /\ resp' = NoResponse
    /\ req' = NoRequest
    /\ UNCHANGED <<now, store, users, issued, redeemed, sweep, minted>>
    /\ UNCHANGED concVars

\* POST /users/token once the lifespan hook has yielded
ServedLogin ==
    /\ server.phase = "serving"
    /\ Login

NextBoot ==
    \/ Startup
    \/ ServedLogin
    \/ Tick

SpecBoot == InitBoot /\ [][NextBoot]_vars

NextSweep ==
    \/ StartupCleanup
    \/ Tick
    \/ Login
    \/ Refresh
    \/ Revoke

SpecSweep == Init /\ [][NextSweep]_vars /\ WF_vars(StartupCleanup)

\* ========================================================================
\* Properties
\* ========================================================================
\* a row is valid in the sense of the data model: not revoked and its
\* expiry strictly after the clock
Valid(rec, at) == ~rec.revoked /\ rec.expires_at > at

\* the row of a string after it has been revoked at day at
Revoked(rec, at) == [rec EXCEPT !.revoked = TRUE, !.revoked_at = {at}]

\* C1: two concurrent refresh calls that present the same string never
\* both succeed (SpecConc).  The code violates it.
C1_SingleUse ==
    \A w1 \in Workers, w2 \in Workers :
        (w1 # w2 /\ wpc[w1] = "done" /\ wpc[w2] = "done"
            /\ wtok[w1] = wtok[w2])
        => ~(wresp[w1].status = "OK" /\ wresp[w2].status = "OK")

\* C2 as stated: a refresh on a string that an earlier refresh succeeded
\* on is always answered TokenExpiredOrRevoked and issues nothing.
C2_Original ==
    [][ (resp'.op = "refresh" /\ resp'.tok \in redeemed)
        => /\ resp'.status = "TokenExpiredOrRevoked"
           /\ resp'.new = NoToken
           /\ DOMAIN store' \subseteq DOMAIN store ]_vars

\* C2 amended: a refresh on a string that an earlier refresh succeeded on
\* fails and issues nothing; it is answered TokenExpiredOrRevoked while the
\* row of the string is stored and InvalidToken once the row is gone.
C2_RedeemedNeverAgain ==
    [][ (resp'.op = "refresh" /\ resp'.tok \in redeemed)
        => /\ resp'.status = IF resp'.tok \in DOMAIN store
                             THEN "TokenExpiredOrRevoked" ELSE "InvalidToken"
           /\ resp'.new = NoToken
           /\ issued' = issued
           /\ DOMAIN store' \subseteq DOMAIN store ]_vars

C2_Witness ==
    /\ resp.op = "refresh"
    /\ resp.tok \in redeemed
    /\ resp.status = "InvalidToken"

\* C3: a successful refresh of string t revokes the row of t, stamping
\* revoked_at, inserts exactly one row, which is unrevoked, owned by the
\* owner of t and keyed by a string other than t, returns that string, and
\* changes no other row.
C3_RefreshEffect ==
    [][ (resp'.op = "refresh" /\ resp'.status = "OK")
        => /\ resp'.tok \in DOMAIN store
           /\ ~store[resp'.tok].revoked
           /\ resp'.new \notin DOMAIN store
           /\ resp'.new # resp'.tok
           /\ DOMAIN store' = DOMAIN store \cup {resp'.new}
           /\ store'[resp'.tok].revoked
           /\ store'[resp'.tok].revoked_at = {now}
           /\ store'[resp'.tok] = Revoked(store[resp'.tok], now)
           /\ ~store'[resp'.new].revoked
           /\ store'[resp'.new].revoked_at = None
           /\ store'[resp'.new].user_id = store[resp'.tok].user_id
           /\ store'[resp'.new].token = resp'.new
           /\ \A x \in DOMAIN store \ {resp'.tok} : store'[x] = store[x] ]_vars

C3_Witness ==
    /\ resp.op = "refresh"
    /\ resp.status = "OK"
    /\ resp.tok \in DOMAIN store
    /\ resp.new \in DOMAIN store
    /\ store[resp.tok].revoked
    /\ ~store[resp.new].revoked

\* C4: a row that is revoked stays revoked in the next state whenever it is
\* still stored, whichever operation runs.
C4_RevocationAbsorbing ==
    [][ \A t \in DOMAIN store :
          (store[t].revoked /\ t \in DOMAIN store') => store'[t].revoked ]_vars

C4_Witness ==
    /\ resp.op = "revoke"
    /\ resp.status = "OK"
    /\ resp.tok \in DOMAIN store
    /\ resp.tok \in redeemed
    /\ store[resp.tok].revoked

\* C5: refresh lets a stored row past its validity test exactly when the
\* row is valid (expiry strictly after the clock), and crud.is_token_valid
\* gives the same verdict.  The code violates it at expires_at = now.
C5_AcceptsIffValid ==
    [][ (resp'.op = "refresh" /\ resp'.tok \in DOMAIN store)
        => /\ (resp'.status # "TokenExpiredOrRevoked")
                <=> Valid(store[resp'.tok], now)
           /\ is_token_valid(store, resp'.tok, now)
                <=> (resp'.status # "TokenExpiredOrRevoked") ]_vars

\* C6: every refresh call that has ended, by an answer or by a failure, and
\* has revoked the presented string for rotation has its replacement row
\* stored (SpecConc).  The code violates it.
C6_RotationAtomic ==
    \A w \in Workers :
        (wpc[w] \in {"done", "aborted"} /\ wtok[w] \in rotated)
        => wtok[w] \in replaced

\* C7: a refresh on a stored row that is revoked or past its expiry is
\* answered TokenExpiredOrRevoked and inserts nothing; a row that was not
\* revoked becomes revoked with revoked_at stamped, a row that was revoked
\* is left as it was.
C7_InvalidRefresh ==
    [][ (/\ resp'.op = "refresh"
         /\ resp'.tok \in DOMAIN store
         /\ (store[resp'.tok].revoked \/ store[resp'.tok].expires_at < now))
        => /\ resp'.status = "TokenExpiredOrRevoked"
           /\ resp'.new = NoToken
           /\ DOMAIN store' = DOMAIN store
           /\ store'[resp'.tok] = IF store[resp'.tok].revoked
                                  THEN store[resp'.tok]
                                  ELSE Revoked(store[resp'.tok], now) ]_vars

C7_Witness ==
    /\ resp.op = "refresh"
    /\ resp.status = "TokenExpiredOrRevoked"
    /\ resp.tok \in DOMAIN store
    /\ store[resp.tok].expires_at < now
    /\ store[resp.tok].revoked_at = {now}

\* C8: a refresh with a string that has no row is answered InvalidToken,
\* which is not the answer given for a revoked or expired row, and changes
\* neither the token table nor the user table.
C8_UnknownToken ==
    [][ (resp'.op = "refresh" /\ resp'.tok \notin DOMAIN store)
        => /\ resp'.status = "InvalidToken"
           /\ resp'.status # "TokenExpiredOrRevoked"
           /\ resp'.new = NoToken
           /\ store' = store
           /\ users' = users
           /\ issued' = issued ]_vars

C8_Witness ==
    /\ resp.op = "refresh"
    /\ resp.status = "InvalidToken"
    /\ resp.tok \in 1 .. issued
    /\ resp.tok \notin DOMAIN store

\* C9: a revoke request of an authenticated requester is refused with the
\* one answer BadRequest, changing nothing, when the string has no row or
\* the row belongs to someone else; otherwise the row becomes revoked and
\* nothing else changes; and no refresh succeeds on a revoked row.
C9_RevokeOwnership ==
    [][ /\ (resp'.op = "revoke" /\ resp'.by # NoUser)
            => IF resp'.tok \notin DOMAIN store
               THEN resp'.status = "BadRequest" /\ store' = store
               ELSE IF store[resp'.tok].user_id # resp'.by
               THEN resp'.status = "BadRequest" /\ store' = store
               ELSE /\ resp'.status = "OK"
                    /\ DOMAIN store' = DOMAIN store
                    /\ store'[resp'.tok].revoked
                    /\ \A x \in DOMAIN store \ {resp'.tok} :
                          store'[x] = store[x]
        /\ (resp'.op = "revoke" /\ resp'.by = NoUser) => store' = store
        /\ (resp'.op = "refresh" /\ resp'.tok \in DOMAIN store
                /\ store[resp'.tok].revoked)
            => resp'.status = "TokenExpiredOrRevoked" /\ resp'.new = NoToken
      ]_vars

C9_Witness ==
    /\ resp.op = "revoke"
    /\ resp.status = "BadRequest"
    /\ resp.by # NoUser
    /\ resp.tok \in DOMAIN store
    /\ store[resp.tok].user_id # resp.by
    /\ ~store[resp.tok].revoked

\* C10: revoking a row that is already revoked, by string or by id, keeps
\* the revoked_at of the first revocation.  The code violates it.
C10_RevokedAtKept ==
    [][ (resp'.op \in {"revoke", "revoke_id"})
        => \A t \in DOMAIN store :
              (store[t].revoked /\ t \in DOMAIN store')
              => /\ store'[t].revoked
                 /\ store'[t].revoked_at = store[t].revoked_at ]_vars

\* C11: revoke_all_user_tokens for user u revokes, stamping revoked_at,
\* every row of u that was not revoked and reports their number; rows of u
\* that were revoked and rows of other users are left as they were; after
\* it no row of u is unrevoked.
C11_RevokeAllEffect ==
    [][ (resp'.op = "revoke_all" /\ resp'.status = "OK")
        => /\ DOMAIN store' = DOMAIN store
           /\ \A t \in DOMAIN store :
                 store'[t] = IF store[t].user_id = resp'.by
                                 /\ ~store[t].revoked
                              THEN Revoked(store[t], now)
                              ELSE store[t]
           /\ resp'.count =
                 Cardinality({t \in DOMAIN store :
                    store[t].user_id = resp'.by /\ ~store[t].revoked})
           /\ \A t \in DOMAIN store' :
                 store'[t].user_id = resp'.by => store'[t].revoked ]_vars

C11_Witness ==
    /\ resp.op = "revoke_all"
    /\ resp.status = "OK"
    /\ resp.count = 1
    /\ \E t1 \in DOMAIN store, t2 \in DOMAIN store :
          /\ store[t1].user_id = resp.by
          /\ store[t2].user_id = resp.by
          /\ store[t1].revoked_at = {now}
          /\ store[t2].revoked
          /\ store[t2].revoked_at # {now}

\* C12: the purge deletes exactly the rows whose expires_at is before the
\* clock minus 30 days, revoked or not, reports their number, and leaves
\* every other row stored and unchanged.
C12_PurgeExact ==
    [][ (resp'.op = "purge")
        => /\ DOMAIN store' =
                 {t \in DOMAIN store :
                    ~(store[t].expires_at < now - RETENTION_DAYS)}
           /\ \A t \in DOMAIN store' : store'[t] = store[t]
           /\ resp'.count = Cardinality(DOMAIN store \ DOMAIN store') ]_vars

C12_Witness ==
    /\ resp.op = "purge"
    /\ resp.count = 1
    /\ \E t \in DOMAIN store :
          /\ store[t].expires_at < now
          /\ ~store[t].revoked

\* C13: a step that removes a row from the refresh_tokens table is a purge
\* (SpecAdmin).  The code violates it: deleting an account deletes its rows.
C13_OnlyPurgeDeletes ==
    [][ DOMAIN store \subseteq DOMAIN store' \/ resp'.op = "purge" ]_vars

\* C14: every row the purge deletes had its expiry behind the clock, and
\* for every string a refresh succeeds after the purge exactly if it
\* succeeded before it.
C14_PurgeNotSecurity ==
    [][ (resp'.op = "purge")
        => /\ \A t \in DOMAIN store \ DOMAIN store' :
                 store[t].expires_at < now
           /\ \A t \in NoToken .. issued :
                 (refresh_status(store, users, t, now) = "OK")
                 <=> (refresh_status(store', users', t, now') = "OK") ]_vars

C14_Witness ==
    /\ resp.op = "purge"
    /\ resp.count >= 1
    /\ \E t \in 1 .. issued :
          /\ t \notin DOMAIN store
          /\ t \notin redeemed
          /\ refresh_status(store, users, t, now) = "InvalidToken"

\* C15: under weak fairness of the cleanup thread, every row whose expiry
\* has fallen behind the clock minus 30 days is eventually deleted
\* (SpecSweep).  The code violates it: the thread runs once, at startup.
C15_SweepEventually ==
    \A t \in 1 .. MaxTokens :
        (t \in DOMAIN store /\ store[t].expires_at < now - RETENTION_DAYS)
        ~> (t \notin DOMAIN store)

\* C16: a login with the right password for an existing active account,
\* when the database does not fail, is answered with an access token naming
\* the account, a refresh string, token_type bearer and expires_in > 0, and
\* inserts exactly one row: unrevoked, of that account, keyed by the string
\* returned; no other row changes.
C16_LoginSuccess ==
    [][ (/\ resp'.op = "login"
         /\ req'.name # NoUser
         /\ req'.pwOk
         /\ ~req'.fault
         /\ users[req'.name].exists
         /\ users[req'.name].is_active)
        => /\ resp'.status = "OK"
           /\ Cardinality(resp'.grant) = 1
           /\ \A g \in resp'.grant :
                 /\ g.token_type = "bearer"
                 /\ g.expires_in > 0
                 /\ jwt_decodes(g.access_token, minutes(now))
                 /\ g.access_token.sub = req'.name
                 /\ g.refresh_token = resp'.new
           /\ resp'.new \notin DOMAIN store
           /\ DOMAIN store' = DOMAIN store \cup {resp'.new}
           /\ store'[resp'.new].user_id = req'.name
           /\ store'[resp'.new].token = resp'.new
           /\ ~store'[resp'.new].revoked
           /\ \A x \in DOMAIN store : store'[x] = store[x] ]_vars

C16_Witness ==
    /\ resp.op = "login"
    /\ resp.status = "OK"
    /\ req.pwOk
    /\ resp.grant # None
    /\ resp.new \in DOMAIN store
    /\ store[resp.new].user_id = req.name
    /\ ~store[resp.new].revoked

\* C17: a login naming no account and a login naming an account with a
\* wrong password get one and the same answer, AuthFailure with nothing
\* else in it, and neither changes the token table or any users row.
C17_NoEnumeration ==
    [][ (/\ resp'.op = "login"
         /\ (req'.name = NoUser \/ ~req'.pwOk))
        => /\ resp' = Response("login", NoUser, NoToken, "AuthFailure",
                                NoToken, 0)
           /\ store' = store
           /\ users' = users
           /\ issued' = issued ]_vars

C17_Witness ==
    /\ resp.op = "login"
    /\ resp.status = "AuthFailure"
    /\ req.name # NoUser
    /\ ~req.pwOk
    /\ users[req.name].exists

\* C18: a login with the right password for an existing account whose
\* is_active is false is answered InactiveAccount, which is not
\* AuthFailure, carries no token, inserts no row and leaves last_login.
C18_InactiveLogin ==
    [][ (/\ resp'.op = "login"
         /\ req'.name # NoUser
         /\ req'.pwOk
         /\ users[req'.name].exists
         /\ ~users[req'.name].is_active)
        => /\ resp'.status = "InactiveAccount"
           /\ resp'.status # "AuthFailure"
           /\ resp'.grant = None
           /\ resp'.new = NoToken
           /\ store' = store
           /\ issued' = issued
           /\ users' = users ]_vars

C18_Witness ==
    /\ resp.op = "login"
    /\ resp.status = "InactiveAccount"
    /\ req.pwOk
    /\ ~users[req.name].is_active
    /\ users[req.name].last_login # None

\* C19: a login with the right password for an active account in which
\* the last_login update fails is still answered 200 with the token pair
\* whose refresh row is stored.  The code violates it.
C19_LastLoginFireAndForget ==
    [][ (resp'.op = "login" /\ req'.fault)
        => /\ resp'.status = "OK"
           /\ resp'.grant # None
           /\ resp'.new \in DOMAIN store' ]_vars

\* C20: the scope dependency returns the account exactly when the token
\* decodes with a subject, the account exists, is active and has every
\* required scope; otherwise the answer is that of the first failing test in
\* the order decode/subject, account, active flag, scopes, and only the
\* last one names a scope (SpecAdmin).
C20_AuthorizeOrder ==
    [][ (resp'.op = "authorize")
        => /\ IF ~jwt_decodes(req'.token, minutes(now)) \/ req'.token.sub = NoUser
              THEN /\ resp'.status = "Unauthenticated"
                   /\ resp'.detail = "Could not validate credentials"
              ELSE IF ~users[req'.token.sub].exists
              THEN /\ resp'.status = "Unauthenticated"
                   /\ resp'.detail = "Could not validate credentials"
              ELSE IF ~users[req'.token.sub].is_active
              THEN /\ resp'.status = "Forbidden"
                   /\ resp'.detail = "Inactive user"
              ELSE IF \E i \in DOMAIN req'.required :
                         req'.required[i] \notin
                            ROLE_SCOPES(users[req'.token.sub].role)
              THEN /\ resp'.status = "Forbidden"
                   /\ \E i \in DOMAIN req'.required :
                         /\ resp'.detail = req'.required[i]
                         /\ req'.required[i] \notin
                               ROLE_SCOPES(users[req'.token.sub].role)
              ELSE /\ resp'.status = "OK"
                   /\ resp'.by = req'.token.sub
           /\ resp'.status # "OK" => resp'.by = NoUser
           /\ users' = users
           /\ store' = store ]_vars

C20_Witness ==
    /\ resp.op = "authorize"
    /\ resp.status = "Forbidden"
    /\ resp.detail = "Inactive user"
    /\ jwt_decodes(req.token, minutes(now))
    /\ \E i \in DOMAIN req.required :
          req.required[i] \notin ROLE_SCOPES(users[req.token.sub].role)

\* the answer of the scope dependency as the response records it
Answer(r) == [status |-> r.status, detail |-> r.detail, user |-> r.by]

\* C21: the answer to a scoped request does not depend on the scopes claim
\* of the token: every other token the server returned that still decodes
\* and has the same subject gets, for the same required scopes and the same
\* accounts, the answer this one got (SpecRoles).
C21_TokenScopesIgnored ==
    [][ (resp'.op = "authorize" /\ jwt_decodes(req'.token, minutes(now)))
        => \A other \in minted :
              (jwt_decodes(other, minutes(now))
               /\ other.sub = req'.token.sub)
              => dependency(users, other, req'.required, minutes(now))
                    = Answer(resp') ]_vars

\* a scoped request was answered for a token while the same subject holds
\* another unexpired token whose scopes claim differs in a required scope
C21_Witness ==
    /\ resp.op = "authorize"
    /\ req.token \in minted
    /\ resp.status \in {"OK", "Forbidden"}
    /\ \E other \in minted :
          /\ jwt_decodes(other, minutes(now))
          /\ other.sub = req.token.sub
          /\ \E i \in DOMAIN req.required :
                /\ str(req.required[i]) \in other.scopes
                /\ str(req.required[i]) \notin req.token.scopes

\* C22: whenever the current role of an active account lacks a required
\* scope, the scoped request is answered Forbidden naming a scope the role
\* lacks, whatever the presented token embeds, so also for a token returned
\* before the role was changed (SpecRoles).
C22_DowngradeImmediate ==
    [][ (/\ resp'.op = "authorize"
         /\ jwt_decodes(req'.token, minutes(now))
         /\ req'.token.sub # NoUser
         /\ users[req'.token.sub].exists
         /\ users[req'.token.sub].is_active
         /\ \E i \in DOMAIN req'.required :
               req'.required[i] \notin ROLE_SCOPES(users[req'.token.sub].role))
        => /\ resp'.status = "Forbidden"
           /\ resp'.by = NoUser
           /\ resp'.detail \notin ROLE_SCOPES(users[req'.token.sub].role)
           /\ \E i \in DOMAIN req'.required :
                 resp'.detail = req'.required[i] ]_vars

\* a token returned before a downgrade, embedding the scope, was refused
\* for that scope
C22_Witness ==
    /\ resp.op = "authorize"
    /\ resp.status = "Forbidden"
    /\ req.token \in minted
    /\ jwt_decodes(req.token, minutes(now))
    /\ str(resp.detail) \in req.token.scopes
    /\ resp.detail \notin ROLE_SCOPES(users[req.token.sub].role)

\* the positions of the required scopes an account's role lacks
Missing(us, r) ==
    {i \in DOMAIN r.required :
        r.required[i] \notin ROLE_SCOPES(us[r.token.sub].role)}

\* C23: the Forbidden answer for missing scopes names the missing scope
\* that comes first in the order the endpoint lists its required scopes
\* (SpecRoles).
C23_FirstMissingNamed ==
    [][ (/\ resp'.op = "authorize"
         /\ jwt_decodes(req'.token, minutes(now))
         /\ req'.token.sub # NoUser
         /\ users[req'.token.sub].exists
         /\ users[req'.token.sub].is_active
         /\ Missing(users, req') # {})
        => /\ resp'.status = "Forbidden"
           /\ \E i \in Missing(users, req') :
                 /\ resp'.detail = req'.required[i]
                 /\ \A j \in Missing(users, req') : i <= j ]_vars

\* a moderator was refused an endpoint of which it lacks two scopes
C23_Witness ==
    /\ resp.op = "authorize"
    /\ resp.status = "Forbidden"
    /\ req.token \in minted
    /\ users[req.token.sub].is_active
    /\ users[req.token.sub].role = "moderator"
    /\ Cardinality(Missing(users, req)) = 2
    /\ resp.detail = "admin:delete"

\* C24: the scopes of user are scopes of moderator, those of moderator are
\* scopes of admin, and in every reachable state two accounts get scope
\* sets ordered as their roles are, equal for equal roles (SpecRoles).
C24_Monotonic ==
    /\ ROLE_SCOPES("user") \subseteq ROLE_SCOPES("moderator")
    /\ ROLE_SCOPES("moderator") \subseteq ROLE_SCOPES("admin")
    /\ \A u1 \in UserIds, u2 \in UserIds :
          (/\ users[u1].role \in Roles
           /\ users[u2].role \in Roles
           /\ RoleRank(users[u1].role) <= RoleRank(users[u2].role))
          => get_user_scopes(users[u1]) \subseteq get_user_scopes(users[u2])

\* a moderator and a user exist and a scoped request was granted
C24_Witness ==
    /\ resp.op = "authorize"
    /\ resp.status = "OK"
    /\ \E u1 \in UserIds, u2 \in UserIds :
          /\ users[u1].role = "user"
          /\ users[u2].role = "moderator"
          /\ get_user_scopes(users[u1]) # get_user_scopes(users[u2])

\* C25: a role that is none of user, moderator, admin (a string outside the
\* enum, NULL) has no scopes, and a scoped request of an active account
\* with such a role is answered Forbidden naming the first required scope
\* (SpecRoles).
C25_FailClosed ==
    [][ /\ \A r \in RoleInputs \ Roles : ROLE_SCOPES(r) = {}
        /\ (/\ resp'.op = "authorize"
            /\ jwt_decodes(req'.token, minutes(now))
            /\ req'.token.sub # NoUser
            /\ users[req'.token.sub].exists
            /\ users[req'.token.sub].is_active
            /\ users[req'.token.sub].role \notin Roles
            /\ req'.required # << >>)
           => /\ get_user_scopes(users[req'.token.sub]) = {}
              /\ resp'.status = "Forbidden"
              /\ resp'.by = NoUser
              /\ resp'.detail = req'.required[1] ]_vars

\* an account whose role column is NULL was refused a scoped request
C25_Witness ==
    /\ resp.op = "authorize"
    /\ resp.status = "Forbidden"
    /\ req.token \in minted
    /\ users[req.token.sub].exists
    /\ users[req.token.sub].is_active
    /\ users[req.token.sub].role = NoRole
    /\ resp.detail = req.required[1]

\* the scopes whose name begins with admin
AdminScopes == {"admin:read", "admin:write", "admin:delete"}

\* C26: decoding the access token that a login of an active account of
\* role user returns gives the scopes claim {user:read, profile:read,
\* profile:write}, made of the scope strings, with no admin scope.  The code
\* violates it.
C26_LoginScopeClaim ==
    [][ (/\ resp'.op = "login"
         /\ resp'.status = "OK"
         /\ users[req'.name].role = "user")
        => \A g \in resp'.grant :
              /\ decode_token(g.access_token, minutes(now)).ok
              /\ decode_token(g.access_token, minutes(now)).scopes
                    = {"user:read", "profile:read", "profile:write"}
              /\ decode_token(g.access_token, minutes(now)).scopes
                    \cap (AdminScopes \cup {str(x) : x \in AdminScopes})
                    = {} ]_vars

\* C27: the payload decoded from a token before the lifetime it was signed
\* with has passed is the claims it was signed with, next to exp, and the
\* decoding fails once the lifetime has passed (SpecToken).  The code
\* violates it.
C27_RoundTrip ==
    [][ (resp'.op = "round_trip" /\ req'.expires_delta # None)
        => \A ttl \in req'.expires_delta, out \in resp'.grant :
              /\ (req'.delay < ttl)
                    => /\ out.ok
                       /\ out.sub = req'.data.sub
                       /\ out.scopes = req'.data.scopes
                       /\ out.user_id = req'.data.user_id
              /\ (req'.delay > ttl) => ~out.ok ]_vars

\* C28: a process whose configuration has no signing secret does not get
\* past its startup: it is never serving, and no request is ever answered,
\* without a secret (SpecBoot).  The code violates it.
C28_SecretRequired ==
    (server.phase = "serving" \/ resp.op # "none") => server.secret

\* C29: in every reachable state each row of refresh_tokens has revoked_at
\* set exactly when its revoked flag is true.
C29_RevokedAtIffRevoked ==
    \A t \in DOMAIN store : store[t].revoked <=> store[t].revoked_at # None

\* after a bulk revocation a stamped revoked row stands next to a row that
\* is neither revoked nor stamped
C29_Witness ==
    /\ resp.op = "revoke_all"
    /\ resp.count > 0
    /\ \E t \in DOMAIN store :
          store[t].revoked /\ store[t].revoked_at = {now}
    /\ \E t \in DOMAIN store :
          ~store[t].revoked /\ store[t].revoked_at = None

C31_UniqueStrings ==
    [][ /\ \A i \in DOMAIN store', j \in DOMAIN store' :
              store'[i].token = store'[j].token => i = j
        /\ \A new \in Strings :
              (/\ resp'.op \in {"login", "refresh"}
               /\ req'.saved = {new}
               /\ rows_with(store, new) # {})
              => /\ resp'.status = "InternalError"
                 /\ resp'.new = NoToken
                 /\ DOMAIN store' = DOMAIN store
                 /\ resp'.op = "login" => store' = store
                 /\ resp'.op = "refresh"
                       => store' = revoke_first_with(store, resp'.tok, now)
      ]_vars

\* a refresh generated a string that a row carries: it was answered with
\* an error, and the row presented is revoked
C31_Witness ==
    /\ resp.op = "refresh"
    /\ resp.status = "InternalError"
    /\ req.saved # None
    /\ \A new \in req.saved : Cardinality(rows_with(store, new)) = 1
    /\ store[first_with(store, resp.tok)].revoked
    /\ Cardinality(DOMAIN store) >= 2

\* C32: GET /users/{user_id} answers with the row of user_id only to a
\* caller that passed the user:read dependency and either has that id or
\* has admin:read among the scopes of its role; every other caller that
\* passed the dependency is answered Forbidden without a row
\* (SpecAccounts).
C32_ReadOwnership ==
    [][ (resp'.op = "read_user")
        => /\ (resp'.grant # None)
                 => /\ get_user_with_scopes(users, req'.caller,
                                            {"user:read"}) = "OK"
                    /\ \/ req'.caller = req'.target
                       \/ "admin:read" \in
                             ROLE_SCOPES(users[req'.caller].role)
                    /\ resp'.grant = {users[req'.target]}
                    /\ users[req'.target].exists
           /\ (/\ get_user_with_scopes(users, req'.caller,
                                        {"user:read"}) = "OK"
               /\ req'.caller # req'.target
               /\ "admin:read" \notin ROLE_SCOPES(users[req'.caller].role))
                 => /\ resp'.status = "Forbidden"
                    /\ resp'.grant = None
           /\ users' = users ]_vars

\* an active moderator asked for the row of another account and was
\* refused
C32_Witness ==
    /\ resp.op = "read_user"
    /\ resp.status = "Forbidden"
    /\ resp.grant = None
    /\ req.caller # NoUser
    /\ req.caller # req.target
    /\ users[req.caller].is_active
    /\ users[req.caller].role = "moderator"
    /\ users[req.target].exists

\* C33: DELETE /users/{user_id} by an active account of role user,
\* moderator or admin succeeds when user_id is its own id, and by an admin
\* when user_id has a row (SpecAccounts).  The code violates it.
C33_DeleteOwnAccount ==
    [][ (/\ resp'.op = "delete_user"
         /\ req'.caller # NoUser
         /\ users[req'.caller].exists
         /\ users[req'.caller].is_active
         /\ users[req'.caller].role \in Roles
         /\ \/ req'.target = req'.caller
            \/ users[req'.caller].role = "admin"
                  /\ users[req'.target].exists)
        => /\ resp'.status = "OK"
           /\ ~users'[req'.target].exists ]_vars

\* C36: while every account is a user or a moderator, no login, refresh,
\* revoke, PUT /users/me, PUT /users/{id}, POST /users/ or change-password
\* changes the role or the active flag of an account, removes an account
\* or creates one (SpecNonAdmin).
C36_NoEscalation ==
    [][ (\A u \in UserIds :
            users[u].exists => users[u].role \in {"user", "moderator"})
        => \A u \in UserIds :
              /\ users'[u].role = users[u].role
              /\ users'[u].is_active = users[u].is_active
              /\ users'[u].exists = users[u].exists ]_vars

\* PUT /users/me with a body that carries role admin was answered 200 and
\* the name of the body was stored, the role of the caller is what it was
C36_Witness ==
    /\ resp.op = "update_profile"
    /\ resp.status = "OK"
    /\ req.body.role = {"admin"}
    /\ req.body.is_active = {FALSE}
    /\ users[req.caller].full_name = req.body.full_name
    /\ users[req.caller].hashed_password = 1
    /\ users[req.caller].role \in {"user", "moderator"}
    /\ users[req.caller].is_active

\* C34: a refresh that presents a row which is neither revoked nor expired
\* while the account of the row is inactive or has no users row is answered
\* 401 "User inactive or deleted" without tokens, inserts no row and leaves
\* the presented row revoked (Spec).
C34_InactiveOwnerRefused ==
    [][ (/\ resp'.op = "refresh"
         /\ is_token_valid(store, resp'.tok, now)
         /\ \/ ~users[store[resp'.tok].user_id].exists
            \/ ~users[store[resp'.tok].user_id].is_active)
        => /\ resp'.status = "UserInactive"
           /\ resp'.grant = None
           /\ resp'.new = NoToken
           /\ issued' = issued
           /\ minted' = minted
           /\ DOMAIN store' = DOMAIN store
           /\ store'[resp'.tok].revoked
           /\ \A x \in DOMAIN store \ {resp'.tok} : store'[x] = store[x] ]_vars

\* the row of a deactivated account was presented before its expiry and
\* the refresh revoked it on the day of the request
C34_Witness ==
    /\ resp.op = "refresh"
    /\ resp.status = "UserInactive"
    /\ resp.grant = None
    /\ resp.tok \in DOMAIN store
    /\ ~users[store[resp.tok].user_id].is_active
    /\ store[resp.tok].revoked
    /\ store[resp.tok].revoked_at = {now}
    /\ store[resp.tok].expires_at >= now
    /\ issued = 1

\* C35: a refresh in flight does not issue once the revocation of its row
\* was committed by POST /users/revoke-token on its string, or by
\* POST /users/revoke-all-tokens of its owner for a string a login had
\* issued, after the validity test of the refresh passed (SpecConc).  The
\* code violates it.
C35_RevocationWins ==
    [][ \A w \in Workers :
          (/\ wpc[w] = "revoked"
           /\ wpc'[w] = "done"
           /\ resp.status = "OK"
           /\ \/ resp.op = "revoke" /\ resp.tok = wtok[w]
              \/ /\ resp.op = "revoke_all"
                 /\ resp.by = wuid[w]
                 /\ \A v \in Workers : wresp[v].new # wtok[w])
          => /\ wresp'[w].status # "OK"
             /\ DOMAIN store' = DOMAIN store ]_vars

\* C37: the answer to a request with a bearer token is the one the token,
\* the clock and the users table give, whatever the refresh_tokens table
\* holds: it is the answer over an empty table and over the table with
\* every row of the subject revoked; and an access token the server
\* returned to an account that is still active is accepted for user:read
\* before its exp, also when every refresh row of the account is revoked
\* (SpecSession).
C37_StoreIndependent ==
    [][ (resp'.op = "authorize")
        => /\ \A s \in {<< >>, store}
                    \cup {revoke_all_user_tokens(store, u, now) :
                             u \in UserIds} :
                 /\ resp'.status =
                      depends(s, users, req'.token, req'.required,
                              minutes(now)).status
                 /\ resp'.by =
                      depends(s, users, req'.token, req'.required,
                              minutes(now)).user
                 /\ resp'.detail =
                      depends(s, users, req'.token, req'.required,
                              minutes(now)).detail
           /\ (/\ req'.token \in minted
               /\ req'.token.exp > minutes(now)
               /\ users[req'.token.sub].exists
               /\ users[req'.token.sub].is_active
               /\ req'.required = <<"user:read">>)
                 => /\ resp'.status = "OK"
                    /\ resp'.by = req'.token.sub
           /\ store' = store ]_vars

\* account 2 logged in, its only refresh row was revoked by a revocation
\* request (no refresh redeemed it), and its access token was accepted
\* afterwards
C37_Witness ==
    /\ resp.op = "authorize"
    /\ resp.status = "OK"
    /\ resp.by = 2
    /\ req.token \in minted
    /\ req.token.sub = 2
    /\ redeemed = {}
    /\ \E x \in DOMAIN store : store[x].user_id = 2
    /\ \A x \in DOMAIN store :
          store[x].user_id = 2
             => store[x].revoked /\ store[x].revoked_at = {now}

====
